---- MODULE Spec2Model ----
(***************************************************************************)
(* Model of pprofiler (src/pprofiler.py): the command bridge (parser),     *)
(* the powerprofilesctl wrapper (PowerCtl), the tray icon reconciliation   *)
(* (SystrayIcon.update_icon) and the timer-driven theme handling of        *)
(* MainApp.                                                                *)
(*                                                                         *)
(* Python strings are sequences of one-character strings, so that strip,   *)
(* replace, splitlines and substring search are computed, not assumed.     *)
(***************************************************************************)
EXTENDS Integers, Sequences, FiniteSets, TLC

VARIABLES
    phase,            \* "start" (before MainApp.OnInit), "running", "exited",
                      \* "failed" (an exception left MainApp.OnInit)
    theme,            \* CONF['system.theme']
    force,            \* CONF['system.theme.force']
    iconState,        \* CONF['systray.icon.state']
    current_profile,  \* SystrayIcon.current_profile
    trayIcon,         \* icon last passed to TaskBarIcon.SetIcon
    tooltip,          \* tooltip last passed to TaskBarIcon.SetIcon
    timerRunning,     \* wx.Timer started and not stopped
    teardown,         \* order of the teardown calls of a quit
    ev,               \* what the last handler observed and did
    proc,             \* behaviour of the external process of one call
    pPc,              \* position of one parser() call
    procState,        \* state of the child process of that call
    pResult,          \* the result dictionary of that call
    ctlResult,        \* result of one PowerCtl method call
    setCall,          \* one PowerCtl.set_profile call: its name, exec vector, result
    menu,             \* the menu built by the last primary click
    daemon            \* the profile the power-profiles daemon has active

vars == <<phase, theme, force, iconState, current_profile, trayIcon, tooltip,
          timerRunning, teardown, ev, proc, pPc, procState, pResult, ctlResult,
          setCall, menu, daemon>>

uiVars == <<setCall, menu, daemon>>

appVars == <<phase, theme, force, iconState, current_profile, trayIcon,
             tooltip, timerRunning, teardown, ev>>

----------------------------------------------------------------------------
(* Bounds of the checked input space.                                      *)

MaxLen == 2      \* longest free-form output line, in characters
MaxLines == 3    \* most lines of a list/get output
MaxName == 3     \* longest free-form profile name given to set_profile

----------------------------------------------------------------------------
(* Strings.                                                                *)

NL == "\n"
Whitespace == {" ", "\t", NL, "\r"}

RECURSIVE lstrip(_)
lstrip(s) ==
    IF s = <<>> THEN <<>>
    ELSE IF Head(s) \in Whitespace THEN lstrip(Tail(s)) ELSE s

RECURSIVE rstrip(_)
rstrip(s) ==
    IF s = <<>> THEN <<>>
    ELSE IF s[Len(s)] \in Whitespace THEN rstrip(SubSeq(s, 1, Len(s) - 1))
         ELSE s

\* str.strip()
strip(s) == rstrip(lstrip(s))

\* str.replace(c, '') for a one-character c
RECURSIVE replace(_, _)
replace(s, c) ==
    IF s = <<>> THEN <<>>
    ELSE (IF Head(s) = c THEN <<>> ELSE <<Head(s)>>) \o replace(Tail(s), c)

StartsWith(s, x) == Len(x) <= Len(s) /\ SubSeq(s, 1, Len(x)) = x

\* x in s  (substring test)
RECURSIVE Contains(_, _)
Contains(x, s) ==
    IF Len(s) < Len(x) THEN FALSE
    ELSE StartsWith(s, x) \/ Contains(x, Tail(s))

\* str.splitlines(): a final line terminator opens no further line
RECURSIVE splitlines(_, _)
splitlines(text, cur) ==
    IF text = <<>> THEN (IF cur = <<>> THEN <<>> ELSE <<cur>>)
    ELSE IF Head(text) = NL THEN <<cur>> \o splitlines(Tail(text), <<>>)
         ELSE splitlines(Tail(text), Append(cur, Head(text)))

\* str(proc.returncode)
str(n) == CASE n = 0 -> "0" [] n = 1 -> "1" [] n = 2 -> "2" [] OTHER -> "-1"

----------------------------------------------------------------------------
(* Configuration (CONF).                                                   *)

CpuDriver == <<"C","p","u","D","r","i","v","e","r",":">>
Degraded == <<"D","e","g","r","a","d","e","d",":">>
PlatformDriver == <<"P","l","a","t","f","o","r","m","D","r","i","v","e","r",":">>
excluded == {CpuDriver, Degraded, PlatformDriver}

performance == <<"p","e","r","f","o","r","m","a","n","c","e">>
power_saver == <<"p","o","w","e","r","-","s","a","v","e","r">>
balanced == <<"b","a","l","a","n","c","e","d">>
Canonical == {performance, power_saver, balanced}

TooltipPrefix ==
    <<"A","c","t","i","v","e"," ","P","r","o","f","i","l","e",":"," ">>

Themes == {"dark", "light"}

----------------------------------------------------------------------------
(* The external process of one command invocation: its exit code, what it  *)
(* writes to stdout, and whether it exits within parser.timeout, after it, *)
(* or never.                                                               *)

Process(rc, out, ex) == [returncode |-> rc, stdout |-> out, exits |-> ex]

RECURSIVE JoinLines(_, _)
JoinLines(ls, last) ==
    IF ls = <<>> THEN <<>>
    ELSE IF Len(ls) = 1 THEN Head(ls) \o (IF last THEN <<NL>> ELSE <<>>)
         ELSE Head(ls) \o <<NL>> \o JoinLines(Tail(ls), last)

----------------------------------------------------------------------------
(* parser(): the result of a call that returns.                            *)

RECURSIVE StripAll(_)
StripAll(ls) ==
    IF ls = <<>> THEN <<>> ELSE <<strip(Head(ls))>> \o StripAll(Tail(ls))

parser(p) ==
    IF p.exits = "in_time"
    THEN [error_code |-> str(p.returncode),
          output |-> StripAll(splitlines(p.stdout, <<>>))]
    ELSE [error_code |-> "1", output |-> <<>>]

----------------------------------------------------------------------------
(* PowerCtl.                                                               *)

\* variant: the markers are looked for at the start of the line only
AnyExcluded_startswith(line) == \E x \in excluded : StartsWith(line, x)

AnyExcluded(line) == \E x \in excluded : Contains(x, line)

\* variant: the whitespace is stripped before the marks are removed
Clean_strip_first(line) == replace(replace(strip(line), "*"), ":")

Clean(line) == strip(replace(replace(line, "*"), ":"))

RECURSIVE ProfilesOf(_)
ProfilesOf(lines) ==
    IF lines = <<>> THEN <<>>
    ELSE (IF Head(lines) # <<>> /\ ~AnyExcluded(Head(lines))
          THEN <<Clean(Head(lines))>> ELSE <<>>) \o ProfilesOf(Tail(lines))

get_profiles(p) ==
    LET parsed == parser(p)
    IN  [error_code |-> parsed.error_code,
         profiles |-> ProfilesOf(parsed.output)]

\* variant: the first line is taken, empty or not
FirstNonEmpty_head(lines) == IF lines = <<>> THEN <<>> ELSE Head(lines)

RECURSIVE FirstNonEmpty(_)
FirstNonEmpty(lines) ==
    IF lines = <<>> THEN <<>>
    ELSE IF Head(lines) # <<>> THEN Head(lines)
         ELSE FirstNonEmpty(Tail(lines))

\* `powerprofilesctl get` answering with the profile d
GetOk(d) == Process(0, d \o <<NL>>, "in_time")

\* get commands that fail: exit code 1 after printing 'a', timeout, no launch
BadProcs ==
    { Process(1, <<"a", NL>>, "in_time"),
      Process(0, <<>>, "late"),
      Process(0, <<>>, "no_launch") }

\* the body of get_active_profile
get_active_profile_of(p) ==
    LET parsed == parser(p)
    IN  [error_code |-> parsed.error_code,
         profile |-> FirstNonEmpty(parsed.output)]

\* the get commands of LiveSpec and their answers, tabulated once: the
\* table holds get_active_profile_of(p) for each of them and nothing else
LiveGets == {GetOk(d) : d \in Canonical} \cup BadProcs

LiveAnswers == [p \in LiveGets |-> get_active_profile_of(p)]

get_active_profile(p) ==
    IF p \in LiveGets THEN LiveAnswers[p] ELSE get_active_profile_of(p)

----------------------------------------------------------------------------
(* The command line of set_profile and its splitting by shlex.split.       *)

\* CONF['powerprofilesctl']
Command ==
    <<"/","u","s","r","/","b","i","n","/",
      "p","o","w","e","r","p","r","o","f","i","l","e","s","c","t","l">>

SetVerb == <<"s","e","t">>

Quotes == {"'", "\""}
Escape == "\\"

\* shlex.split(s) in POSIX mode: s is what is left to read, cur the token
\* being read, intok whether a token has been started, q the open quote (""
\* for none), acc the tokens read.  ok is FALSE where shlex raises
\* ValueError (no closing quotation, no escaped character).
RECURSIVE shlex_split(_, _, _, _, _)
shlex_split(s, cur, intok, q, acc) ==
    IF s = <<>>
    THEN IF q # "" THEN [ok |-> FALSE, args |-> <<>>]
         ELSE [ok |-> TRUE, args |-> IF intok THEN Append(acc, cur) ELSE acc]
    ELSE LET c == Head(s)
             r == Tail(s)
         IN  IF q # ""
             THEN IF c = q THEN shlex_split(r, cur, TRUE, "", acc)
                  ELSE IF c = Escape /\ q = "\""
                       THEN IF r = <<>> THEN [ok |-> FALSE, args |-> <<>>]
                            ELSE IF Head(r) \in {"\"", Escape}
                                 THEN shlex_split(Tail(r), Append(cur, Head(r)),
                                                  TRUE, q, acc)
                                 ELSE shlex_split(Tail(r),
                                                  cur \o <<c, Head(r)>>,
                                                  TRUE, q, acc)
                       ELSE shlex_split(r, Append(cur, c), TRUE, q, acc)
             ELSE IF c \in Whitespace
                  THEN shlex_split(r, <<>>, FALSE, "",
                                   IF intok THEN Append(acc, cur) ELSE acc)
                  ELSE IF c \in Quotes THEN shlex_split(r, cur, TRUE, c, acc)
                  ELSE IF c = Escape
                       THEN IF r = <<>> THEN [ok |-> FALSE, args |-> <<>>]
                            ELSE shlex_split(Tail(r), Append(cur, Head(r)),
                                             TRUE, "", acc)
                       ELSE shlex_split(r, Append(cur, c), TRUE, "", acc)

\* PowerCtl.set_profile(profile) with the command behaving as p: the exec
\* vector handed to Popen and the value returned; raised where shlex.split
\* raises ValueError, which parser does not catch.
set_profile(profile, p) ==
    LET line == Command \o <<" ">> \o SetVerb \o <<" ">> \o profile
        sp == shlex_split(line, <<>>, FALSE, "", <<>>)
    IN  IF sp.ok
        THEN [op |-> "set", name |-> profile, raised |-> FALSE,
              argv |-> sp.args, ok |-> parser(p).error_code = "0"]
        ELSE [op |-> "set", name |-> profile, raised |-> TRUE,
              argv |-> <<>>, ok |-> FALSE]

----------------------------------------------------------------------------
(* Inputs: the outputs a list/get command may print.                       *)

Alphabet == {"a", "*", ":", " "}

RECURSIVE StringsUpTo(_)
StringsUpTo(n) ==
    IF n = 0 THEN {<<>>}
    ELSE LET S == StringsUpTo(n - 1)
         IN  S \cup {Append(s, c) : s \in {t \in S : Len(t) = n - 1},
                                    c \in Alphabet}

\* lines with an exclusion marker, near misses, and decorated names
ExtraLines ==
    { CpuDriver \o <<" ", "a">>,
      Degraded,
      <<"a", " ">> \o PlatformDriver,
      SubSeq(CpuDriver, 1, 9),
      <<"*", "a">>,
      <<"a", ":">>,
      <<"*", " ", "a", ":">>,
      <<"a", ":", "a">> }

\* the lines that outputs of several lines are made of
CoreLines ==
    StringsUpTo(1) \cup
    { CpuDriver \o <<" ", "a">>,
      <<"a", " ">> \o PlatformDriver,
      SubSeq(CpuDriver, 1, 9),
      <<"*", "a">> }

\* every line of up to MaxLen characters, for the outputs of one line
RawLines == StringsUpTo(MaxLen) \cup ExtraLines

LineSeqs ==
    {<<>>} \cup {<<l>> : l \in RawLines}
           \cup UNION {[1..k -> CoreLines] : k \in 2..MaxLines}

ReturnCodes == {0, 1}

\* a get output with a blank first line and an indented name
GetExample ==
    JoinLines(<<<<>>, <<" ", " ">> \o balanced \o <<" ", " ">>, power_saver>>,
              TRUE)

CtlStdouts ==
    {JoinLines(ls, nl) : ls \in LineSeqs, nl \in BOOLEAN} \cup {GetExample}

CtlProcs ==
    {Process(rc, out, ex) :
        rc \in ReturnCodes, out \in CtlStdouts, ex \in {"in_time", "late"}}

----------------------------------------------------------------------------
(* Values of the variables a specification does not use.                   *)

NoProc == Process(0, <<>>, "in_time")
NoResult == [error_code |-> "0", output |-> <<>>]
NoCtl == [op |-> "none", error_code |-> "0", profiles |-> <<>>,
          profile |-> <<>>]
NoIcon == [kind |-> "none", theme |-> "", name |-> <<>>]
NoEv == [op |-> "none", ok |-> TRUE, returned |-> <<>>, prevProfile |-> <<>>,
         setIcon |-> FALSE, q1 |-> "", q2 |-> "", prevTheme |-> "",
         reload |-> FALSE, raised |-> FALSE]

AppIdle ==
    /\ phase = "start"
    /\ theme = ""
    /\ force = FALSE
    /\ iconState = [k \in Canonical |-> NoIcon]
    /\ current_profile = <<>>
    /\ trayIcon = NoIcon
    /\ tooltip = <<>>
    /\ timerRunning = FALSE
    /\ teardown = <<>>
    /\ ev = NoEv

ParserIdle ==
    /\ pPc = "idle"
    /\ procState = "not_started"
    /\ pResult = NoResult

NoSetCall == [op |-> "none", name |-> <<>>, raised |-> FALSE, argv |-> <<>>,
              ok |-> FALSE]
NoMenu == [open |-> FALSE, items |-> <<>>, listed |-> <<>>, active |-> <<>>,
           selected |-> 0]

UiIdle ==
    /\ setCall = NoSetCall
    /\ menu = NoMenu
    /\ daemon = <<>>

----------------------------------------------------------------------------
(* CtlSpec: one PowerCtl method applied to one command outcome.            *)

CtlInit ==
    /\ AppIdle
    /\ ParserIdle
    /\ proc \in CtlProcs
    /\ ctlResult = NoCtl
    /\ UiIdle

call_get_profiles ==
    /\ ctlResult.op = "none"
    /\ LET r == get_profiles(proc)
       IN  ctlResult' = [op |-> "list", error_code |-> r.error_code,
                         profiles |-> r.profiles, profile |-> <<>>]
    /\ UNCHANGED <<appVars, proc, pPc, procState, pResult, uiVars>>

call_get_active_profile ==
    /\ ctlResult.op = "none"
    /\ LET r == get_active_profile(proc)
       IN  ctlResult' = [op |-> "get", error_code |-> r.error_code,
                         profiles |-> <<>>, profile |-> r.profile]
    /\ UNCHANGED <<appVars, proc, pPc, procState, pResult, uiVars>>

CtlNext == call_get_profiles \/ call_get_active_profile

CtlSpec == CtlInit /\ [][CtlNext]_vars

----------------------------------------------------------------------------
(* SetSpec: one PowerCtl.set_profile call with one name and one command    *)
(* outcome.                                                                *)

NameAlphabet == {"a", " ", "'", "\""}

RECURSIVE NamesUpTo(_)
NamesUpTo(n) ==
    IF n = 0 THEN {<<>>}
    ELSE LET S == NamesUpTo(n - 1)
         IN  S \cup {Append(x, c) : x \in {t \in S : Len(t) = n - 1},
                                    c \in NameAlphabet}

\* the names are not empty
Names == (NamesUpTo(MaxName) \ {<<>>}) \cup Canonical

SetProcs ==
    {Process(rc, <<>>, ex) : rc \in ReturnCodes, ex \in {"in_time", "late"}}

SetInit ==
    /\ AppIdle
    /\ ParserIdle
    /\ proc \in SetProcs
    /\ ctlResult = NoCtl
    /\ setCall \in {[NoSetCall EXCEPT !.name = x] : x \in Names}
    /\ menu = NoMenu
    /\ daemon = <<>>

call_set_profile ==
    /\ setCall.op = "none"
    /\ setCall' = set_profile(setCall.name, proc)
    /\ UNCHANGED <<appVars, proc, pPc, procState, pResult, ctlResult, menu,
                   daemon>>

SetNext == call_set_profile

SetSpec == SetInit /\ [][SetNext]_vars

----------------------------------------------------------------------------
(* Icons and theme (MainApp).                                              *)

Icon(kind, th, name) == [kind |-> kind, theme |-> th, name |-> name]

\* wx.ArtProvider.GetIcon(CONF['default.icon'])
DefaultIcon == Icon("default", "", <<>>)

get_icon(th, name) == Icon("file", th, name)

\* variant: the force flag is not consulted
set_theme_style_unguarded(th, f, q) == q

\* the new CONF['system.theme'], q being the OS appearance
set_theme_style(th, f, q) == IF ~f THEN q ELSE th

os_theme_style_changed(th, q) == th = q

\* variant: the entries without a file are left as they are
set_icons_nofill(icons, th, files) ==
    [k \in Canonical |-> IF k \in files THEN get_icon(th, k) ELSE icons[k]]

\* files: base names of the .png files found in the theme's directory
set_icons(icons, th, files) ==
    [k \in Canonical |->
        IF k \in files THEN get_icon(th, k)
        ELSE IF icons[k] = NoIcon THEN DefaultIcon ELSE icons[k]]

----------------------------------------------------------------------------
(* SystrayIcon.update_icon: the new current_profile and what is displayed. *)

\* variant: the icon is set on every call, changed or not
update_icon_always(cur, icons, shown, tip, p) ==
    LET active_profile == get_active_profile(p).profile
    IN  [current_profile |-> active_profile,
         setIcon |-> TRUE,
         trayIcon |-> IF active_profile \in DOMAIN icons
                      THEN icons[active_profile] ELSE icons[balanced],
         tooltip |-> TooltipPrefix \o active_profile]

\* variant: the new profile is displayed but not remembered, and a profile
\* equal to the remembered one is taken for a change
update_icon_stale(cur, icons, shown, tip, p) ==
    LET active_profile == get_active_profile(p).profile
    IN  IF active_profile = cur
        THEN [current_profile |-> active_profile,
              setIcon |-> TRUE,
              trayIcon |-> IF active_profile \in DOMAIN icons
                           THEN icons[active_profile] ELSE icons[balanced],
              tooltip |-> TooltipPrefix \o active_profile]
        ELSE [current_profile |-> cur, setIcon |-> FALSE,
              trayIcon |-> shown, tooltip |-> tip]

update_icon(cur, icons, shown, tip, p) ==
    LET active_profile == get_active_profile(p).profile
    IN  IF active_profile # cur
        THEN [current_profile |-> active_profile,
              setIcon |-> TRUE,
              trayIcon |-> IF active_profile \in DOMAIN icons
                           THEN icons[active_profile] ELSE icons[balanced],
              tooltip |-> TooltipPrefix \o active_profile]
        ELSE [current_profile |-> cur, setIcon |-> FALSE,
              trayIcon |-> shown, tooltip |-> tip]

----------------------------------------------------------------------------
(* Spec: the application driven by its timer.                              *)

\* outputs of the get command seen by the polls
TickStdouts ==
    { <<>>,
      <<NL>>,
      JoinLines(<<balanced>>, TRUE),
      JoinLines(<<performance>>, TRUE),
      JoinLines(<<<<>>, <<" ">> \o balanced \o <<" ">>, power_saver>>, TRUE),
      JoinLines(<<<<"a">>>>, FALSE) }

TickProcs ==
    {Process(rc, out, ex) :
        rc \in ReturnCodes, out \in TickStdouts, ex \in {"in_time", "late"}}
    \cup {Process(0, <<>>, "no_launch")}

\* contents of a theme's icon directory
Listings == {{}, {balanced}, Canonical}

\* --force-theme
ForceThemeArgs == {"", "dark", "light"}

Init ==
    /\ phase = "start"
    /\ \E arg \in ForceThemeArgs :
          /\ force = (arg # "")
          /\ theme = arg
    /\ iconState = [k \in Canonical |-> NoIcon]
    /\ current_profile = <<>>
    /\ trayIcon = NoIcon
    /\ tooltip = <<>>
    /\ timerRunning = FALSE
    /\ teardown = <<>>
    /\ ev = NoEv
    /\ ParserIdle
    /\ proc = NoProc
    /\ ctlResult = NoCtl
    /\ UiIdle

\* Popen raises OSError (no such executable, no permission); parser catches
\* TimeoutExpired only, so the exception leaves parser and its callers
Raises(p) == p.exits = "no_launch"

\* update_icon with the get command behaving as p
poll(cur, icons, shown, tip, p) ==
    IF Raises(p)
    THEN [current_profile |-> cur, setIcon |-> FALSE, trayIcon |-> shown,
          tooltip |-> tip]
    ELSE update_icon(cur, icons, shown, tip, p)

Observed(op, p, u, q, qq, rl) ==
    [op |-> op,
     ok |-> ~Raises(p) /\ get_active_profile(p).error_code = "0",
     returned |-> IF Raises(p) THEN <<>> ELSE get_active_profile(p).profile,
     raised |-> Raises(p),
     prevProfile |-> current_profile,
     setIcon |-> u.setIcon,
     q1 |-> q,
     q2 |-> qq,
     prevTheme |-> theme,
     reload |-> rl]

OnInit(q, files, p) ==
    /\ phase = "start"
    /\ LET th == set_theme_style(theme, force, q)
           icons == set_icons(iconState, th, files)
           u == poll(<<>>, icons, trayIcon, tooltip, p)
       IN  /\ theme' = th
           /\ iconState' = icons
           /\ current_profile' = u.current_profile
           /\ trayIcon' = u.trayIcon
           /\ tooltip' = u.tooltip
           /\ ev' = Observed("OnInit", p, u, q, q, TRUE)
    \* an exception in SystrayIcon.__init__ leaves OnInit before timer.Start
    /\ timerRunning' = ~Raises(p)
    /\ phase' = IF Raises(p) THEN "failed" ELSE "running"
    /\ UNCHANGED <<force, teardown, proc, pPc, procState, pResult, ctlResult,
                   uiVars>>

on_timer(q1, q2, files, p) ==
    /\ phase = "running"
    /\ timerRunning
    /\ LET rl == os_theme_style_changed(theme, q1)
           th == IF rl THEN set_theme_style(theme, force, q2) ELSE theme
           icons == IF rl THEN set_icons(iconState, th, files) ELSE iconState
           u == poll(current_profile, icons, trayIcon, tooltip, p)
       IN  /\ theme' = th
           /\ iconState' = icons
           /\ current_profile' = u.current_profile
           /\ trayIcon' = u.trayIcon
           /\ tooltip' = u.tooltip
           /\ ev' = Observed("on_timer", p, u, q1, IF rl THEN q2 ELSE q1, rl)
    /\ UNCHANGED <<phase, force, timerRunning, teardown, proc, pPc, procState,
                   pResult, ctlResult,
                   uiVars>>

on_quit ==
    /\ phase = "running"
    /\ teardown' = <<"RemoveIcon", "Destroy", "timer.Stop", "frame.Destroy",
                     "ExitMainLoop">>
    /\ trayIcon' = NoIcon
    /\ timerRunning' = FALSE
    /\ phase' = "exited"
    /\ ev' = [NoEv EXCEPT !.op = "on_quit"]
    /\ UNCHANGED <<theme, force, iconState, current_profile, tooltip, proc,
                   pPc, procState, pResult, ctlResult,
                   uiVars>>

Next ==
    \/ \E q \in Themes, files \in Listings, p \in TickProcs :
          OnInit(q, files, p)
    \/ \E q1 \in Themes, q2 \in Themes, files \in Listings, p \in TickProcs :
          on_timer(q1, q2, files, p)
    \/ on_quit

Spec == Init /\ [][Next]_vars

----------------------------------------------------------------------------
(* MenuSpec: the primary-click menu and the choice of one of its items.    *)

\* variant: the handlers read the loop variable when they run, after the
\* loop has ended
create_left_click_menu_latebound(profiles, active_profile) ==
    [n \in 1..Len(profiles) |->
        [label |-> profiles[n],
         checked |-> profiles[n] = active_profile,
         bound |-> profiles[Len(profiles)]]]

\* the radio items: label, whether Check() was called, and the name the
\* item's handler (lambda event, p=profile) passes to set_profile
create_left_click_menu(profiles, active_profile) ==
    [n \in 1..Len(profiles) |->
        [label |-> profiles[n],
         checked |-> profiles[n] = active_profile,
         bound |-> profiles[n]]]

\* the daemon's profile after a set_profile call r
DaemonAfter(r) ==
    IF ~r.raised /\ r.ok /\ Len(r.argv) = 3 /\ r.argv[3] \in Canonical
    THEN r.argv[3] ELSE daemon

\* SystrayIcon.on_left_click; pl and pa are the list and the get command
on_left_click(pl, pa) ==
    /\ phase = "running"
    /\ IF Raises(pl) \/ Raises(pa)
       THEN menu' = menu
       ELSE LET profiles == get_profiles(pl).profiles
                active_profile == get_active_profile(pa).profile
            IN  menu' = [open |-> TRUE,
                         items |-> create_left_click_menu(profiles,
                                                          active_profile),
                         listed |-> profiles,
                         active |-> active_profile,
                         selected |-> 0]
    /\ UNCHANGED <<appVars, proc, pPc, procState, pResult, ctlResult,
                   setCall, daemon>>

\* the user picks the n-th item: its handler calls set_profile
select_item(n, ps) ==
    /\ phase = "running"
    /\ menu.open
    /\ n \in 1..Len(menu.items)
    /\ ~Raises(ps)
    /\ LET r == set_profile(menu.items[n].bound, ps)
       IN  /\ setCall' = r
           /\ daemon' = DaemonAfter(r)
    /\ menu' = [menu EXCEPT !.open = FALSE, !.selected = n]
    /\ UNCHANGED <<appVars, proc, pPc, procState, pResult, ctlResult>>

\* the user closes the menu without a choice
dismiss_menu ==
    /\ menu.open
    /\ menu' = [menu EXCEPT !.open = FALSE]
    /\ UNCHANGED <<appVars, proc, pPc, procState, pResult, ctlResult,
                   setCall, daemon>>

\* list outputs: the tool's usual output with balanced active, a list with
\* a name twice, a list of one unknown name, and no output
ListStdouts ==
    { JoinLines(<< <<" ", " ">> \o performance \o <<":">>,
                   <<" ", " ", " ", " ">> \o CpuDriver \o <<" ", "a">>,
                   <<>>,
                   <<"*", " ">> \o balanced \o <<":">>,
                   <<" ", " ", " ", " ">> \o PlatformDriver \o <<" ", "a">>,
                   <<>>,
                   <<" ", " ">> \o power_saver \o <<":">> >>, TRUE),
      JoinLines(<< balanced, <<"a">>, balanced >>, TRUE),
      JoinLines(<< <<"a">> >>, FALSE),
      <<>> }

ListProcs ==
    {Process(rc, out, ex) :
        rc \in ReturnCodes, out \in ListStdouts, ex \in {"in_time", "late"}}
    \cup {Process(0, <<>>, "no_launch")}

MenuInit ==
    /\ phase = "running"
    /\ theme = "light"
    /\ force = FALSE
    /\ iconState = [k \in Canonical |-> DefaultIcon]
    /\ current_profile = <<>>
    /\ trayIcon = NoIcon
    /\ tooltip = <<>>
    /\ timerRunning = TRUE
    /\ teardown = <<>>
    /\ ev = NoEv
    /\ ParserIdle
    /\ proc = NoProc
    /\ ctlResult = NoCtl
    /\ setCall = NoSetCall
    /\ menu = NoMenu
    /\ daemon \in Canonical

MenuNext ==
    \/ \E pl \in ListProcs, pa \in TickProcs : on_left_click(pl, pa)
    \/ \E n \in 1..MaxLines, ps \in SetProcs : select_item(n, ps)
    \/ dismiss_menu

MenuSpec == MenuInit /\ [][MenuNext]_vars

----------------------------------------------------------------------------
(* LiveSpec: the application polling a daemon whose active profile is      *)
(* `daemon`, with the menu and other tools changing that profile.  The OS  *)
(* theme stays light.  The timer fires again and again while the           *)
(* application runs, which is the fairness of the successful poll.         *)

\* `powerprofilesctl get` answering with the daemon's profile
\* `powerprofilesctl list` answering with the three profiles, d marked
ListOk(d) ==
    LET row(x) == (IF x = d THEN <<"*", " ">> ELSE <<" ", " ">>)
                      \o x \o <<":">>
    IN  Process(0, JoinLines(<<row(performance), row(balanced),
                               row(power_saver)>>, TRUE), "in_time")

LiveInit ==
    /\ phase = "start"
    /\ theme = ""
    /\ force = FALSE
    /\ iconState = [k \in Canonical |-> NoIcon]
    /\ current_profile = <<>>
    /\ trayIcon = NoIcon
    /\ tooltip = <<>>
    /\ timerRunning = FALSE
    /\ teardown = <<>>
    /\ ev = NoEv
    /\ ParserIdle
    /\ proc = NoProc
    /\ ctlResult = NoCtl
    /\ setCall = NoSetCall
    /\ menu = NoMenu
    /\ daemon \in Canonical

live_init ==
    \E p \in {GetOk(daemon)} \cup BadProcs : OnInit("light", Canonical, p)

good_tick == on_timer("light", "light", Canonical, GetOk(daemon))

bad_tick == \E p \in BadProcs : on_timer("light", "light", Canonical, p)

live_click == on_left_click(ListOk(daemon), GetOk(daemon))

live_select == \E n \in 1..3, ps \in SetProcs : select_item(n, ps)

\* another tool changes the daemon's profile
daemon_changes ==
    /\ daemon' \in Canonical \ {daemon}
    /\ UNCHANGED <<appVars, proc, pPc, procState, pResult, ctlResult,
                   setCall, menu>>

LiveNext ==
    \/ live_init
    \/ good_tick
    \/ bad_tick
    \/ live_click
    \/ live_select
    \/ dismiss_menu
    \/ daemon_changes
    \/ on_quit

LiveSpec == LiveInit /\ [][LiveNext]_vars /\ WF_vars(good_tick)

----------------------------------------------------------------------------
(* ParserSpec: one call of parser(), step by step.  communicate(timeout)   *)
(* raises TimeoutExpired without ending the child; leaving the            *)
(* `with Popen(...)` block then waits for the child to exit.               *)

ParserProcs ==
    {Process(rc, out, ex) :
        rc \in ReturnCodes, out \in TickStdouts,
        ex \in {"in_time", "late", "never", "no_launch"}}

ParserInit ==
    /\ AppIdle
    /\ proc \in ParserProcs
    /\ pPc = "call"
    /\ procState = "not_started"
    /\ pResult = NoResult
    /\ ctlResult = NoCtl
    /\ UiIdle

\* subprocess.Popen(shlex.split(command), ...)
Popen ==
    /\ pPc = "call"
    /\ ~Raises(proc)
    /\ pPc' = "communicate"
    /\ procState' = "running"
    /\ UNCHANGED <<appVars, proc, pResult, ctlResult,
                   uiVars>>

\* Popen raises OSError: no except clause of parser matches, the exception
\* leaves parser
PopenRaises ==
    /\ pPc = "call"
    /\ Raises(proc)
    /\ pPc' = "raised"
    /\ UNCHANGED <<appVars, proc, procState, pResult, ctlResult, uiVars>>

\* the child exits by itself: within the timeout, or after it
ProcExit ==
    /\ procState = "running"
    /\ \/ proc.exits = "in_time" /\ pPc = "communicate"
       \/ proc.exits = "late" /\ pPc = "exit_wait"
    /\ procState' = "exited"
    /\ UNCHANGED <<appVars, proc, pPc, pResult, ctlResult,
                   uiVars>>

\* communicate() returns, the with block is left, the result is built
CommunicateReturns ==
    /\ pPc = "communicate"
    /\ procState = "exited"
    /\ pResult' = parser(proc)
    /\ pPc' = "returned"
    /\ UNCHANGED <<appVars, proc, procState, ctlResult,
                   uiVars>>

\* communicate() raises TimeoutExpired; Popen.__exit__ calls wait()
TimeoutExpires ==
    /\ pPc = "communicate"
    /\ procState = "running"
    /\ proc.exits # "in_time"
    /\ pPc' = "exit_wait"
    /\ UNCHANGED <<appVars, proc, procState, pResult, ctlResult,
                   uiVars>>

\* wait() returns once the child has exited; except TimeoutExpired
ExitWaitReturns ==
    /\ pPc = "exit_wait"
    /\ procState = "exited"
    /\ pResult' = parser(proc)
    /\ pPc' = "returned"
    /\ UNCHANGED <<appVars, proc, procState, ctlResult,
                   uiVars>>

ParserNext ==
    \/ Popen
    \/ PopenRaises
    \/ ProcExit
    \/ CommunicateReturns
    \/ TimeoutExpires
    \/ ExitWaitReturns

ParserSpec == ParserInit /\ [][ParserNext]_vars

----------------------------------------------------------------------------
(* Properties.                                                             *)

Tick == ev.op = "on_timer"

\* C1: a poll whose get-active command failed leaves current_profile as it
\* was before the poll and calls SetIcon not at all.
C1_FailedPollKeepsState ==
    (Tick /\ ~ev.ok) => (current_profile = ev.prevProfile /\ ~ev.setIcon)

\* C2: with the theme not forced, a tick whose OS appearance query differs
\* from the stored theme stores the queried theme and reloads the icons.
C2_UnforcedTickFollowsOS ==
    (Tick /\ ~force /\ ev.q1 # ev.prevTheme) =>
        (theme = ev.q1 /\ ev.reload)

\* C3: a tick whose OS appearance query equals the stored theme reloads no
\* icons (no theme-changed event).
C3_NoReloadWithoutChange ==
    (Tick /\ ev.q1 = ev.prevTheme) => ~ev.reload

\* C4: in a poll whose get-active command succeeded, SetIcon is called if
\* and only if the returned profile differs from the stored one; the stored
\* profile is then the returned one and the tooltip is 'Active Profile: '
\* followed by it.
C4_EventIffProfileDiffers ==
    (Tick /\ ev.ok) =>
        /\ ev.setIcon <=> (ev.returned # ev.prevProfile)
        /\ current_profile = ev.returned
        /\ ev.setIcon => tooltip = TooltipPrefix \o ev.returned

\* a successful poll that saw the daemon go from balanced to performance
C4_Witness ==
    /\ Tick /\ ev.ok /\ ev.setIcon
    /\ ev.prevProfile = balanced
    /\ current_profile = performance

\* C5: while the theme is forced, no step (startup detection or tick)
\* changes the stored theme or the force flag.
C5_ForcedThemeKept == [][force => (theme' = theme /\ force')]_vars

\* a tick of a forced process that ran set_theme_style while the OS
\* appearance was the other theme
C5_Witness ==
    /\ Tick /\ force /\ ev.reload
    /\ ev.q2 # theme

\* C6: once the timeout of a parser call has expired the child process is
\* not running any more (it was forcibly terminated), so that the call
\* returns whether or not the child would exit by itself.
C6_TimeoutTerminatesProcess ==
    pPc = "exit_wait" => procState # "running"

\* C7: get_active_profile of a failed command (non-zero exit code or
\* timeout) has the empty string as profile.
C7_FailedGetIsEmpty ==
    (ctlResult.op = "get" /\ ctlResult.error_code # "0") =>
        ctlResult.profile = <<>>

\* C8: a poll whose get-active command succeeded without any non-empty line
\* leaves current_profile as it was and calls SetIcon not at all.
C8_ParseEmptyKeepsDisplay ==
    (Tick /\ ev.ok /\ ev.returned = <<>>) =>
        (current_profile = ev.prevProfile /\ ~ev.setIcon)

\* the trimmed output lines of the command of a PowerCtl call
Lines == parser(proc).output

HasMarker(line) ==
    \E m \in excluded : \E i \in 1..Len(line) :
        /\ i + Len(m) - 1 <= Len(line)
        /\ SubSeq(line, i, i + Len(m) - 1) = m

Surviving == {i \in 1..Len(Lines) : Lines[i] # <<>> /\ ~HasMarker(Lines[i])}

Rank(i) == Cardinality({j \in Surviving : j <= i})

\* C9: the profiles of get_profiles are, in order, one entry for each
\* non-empty output line without an exclusion marker, and nothing else:
\* marker lines give no entry and equal names are all kept.
C9_SurvivingLinesInOrder ==
    ctlResult.op = "list" =>
        /\ Len(ctlResult.profiles) = Cardinality(Surviving)
        /\ \A i \in Surviving : ctlResult.profiles[Rank(i)] = Clean(Lines[i])

\* a list with a marker line dropped and the same name kept twice
C9_Witness ==
    /\ ctlResult.op = "list"
    /\ \E i \in 1..Len(Lines) : HasMarker(Lines[i])
    /\ Len(ctlResult.profiles) = 2
    /\ ctlResult.profiles[1] = ctlResult.profiles[2]
    /\ ctlResult.profiles[1] # <<>>

\* C10: every entry of the profiles of get_profiles is a non-empty string.
C10_EntriesNonEmpty ==
    ctlResult.op = "list" =>
        \A i \in 1..Len(ctlResult.profiles) : ctlResult.profiles[i] # <<>>

\* s without surrounding whitespace and without the ':' it ends with
RECURSIVE DropTrailingColon(_)
DropTrailingColon(s) ==
    LET t == strip(s)
    IN  IF t # <<>> /\ t[Len(t)] = ":"
        THEN DropTrailingColon(SubSeq(t, 1, Len(t) - 1))
        ELSE t

\* a line without its '*', its surrounding whitespace and its trailing ':'
Undecorated(line) == DropTrailingColon(replace(line, "*"))

\* C11: the entry of a surviving line is the line without '*', without a
\* trailing ':' and without surrounding whitespace; every other character,
\* a ':' inside the line included, is kept.
C11_OnlyDecorationsRemoved ==
    ctlResult.op = "list" =>
        \A i \in Surviving : ctlResult.profiles[Rank(i)] = Undecorated(Lines[i])

\* C12: cleaning an entry of get_profiles again gives the same entry.
C12_CleanIdempotent ==
    ctlResult.op = "list" =>
        \A i \in 1..Len(ctlResult.profiles) :
            Clean(ctlResult.profiles[i]) = ctlResult.profiles[i]

\* a list whose line was changed by the cleaning into a non-empty name
C12_Witness ==
    /\ ctlResult.op = "list"
    /\ Len(Lines) = 1
    /\ Len(ctlResult.profiles) = 1
    /\ ctlResult.profiles[1] # Lines[1]
    /\ ctlResult.profiles[1] # <<>>

\* the raw lines of the output of the command of a PowerCtl call
RawOutput == splitlines(proc.stdout, <<>>)

NonBlank == {i \in 1..Len(RawOutput) : strip(RawOutput[i]) # <<>>}

\* C13: after a get command that exited with code 0 in time, the profile is
\* the first output line that is not blank, without its leading and
\* trailing whitespace, and the empty string when every line is blank.
C13_FirstNonEmptyTrimmed ==
    (ctlResult.op = "get" /\ proc.exits = "in_time" /\ proc.returncode = 0) =>
        /\ NonBlank = {} => ctlResult.profile = <<>>
        /\ \A i \in NonBlank :
              (\A j \in NonBlank : i <= j) =>
                  ctlResult.profile = strip(RawOutput[i])

\* the output "", "  balanced  ", "power-saver" gave "balanced"
C13_Witness ==
    /\ ctlResult.op = "get"
    /\ proc.exits = "in_time" /\ proc.returncode = 0
    /\ proc.stdout = GetExample
    /\ ctlResult.profile = balanced

\* C14: set_profile(name) hands Popen the exec vector [command, 'set', name]
\* and no exception escapes, whatever the name; it returns true exactly when
\* the command exited with code 0 within the timeout.
C14_NameIsOneArgument ==
    setCall.op = "set" =>
        /\ ~setCall.raised
        /\ setCall.argv = <<Command, SetVerb, setCall.name>>
        /\ setCall.ok <=> (proc.exits = "in_time" /\ proc.returncode = 0)

\* C15: in a quit, timer.Stop() comes before the tray icon is removed or
\* destroyed and before the frame is destroyed.
C15_TimerStoppedFirst ==
    phase = "exited" =>
        /\ \E i \in DOMAIN teardown : teardown[i] = "timer.Stop"
        /\ \A i, j \in DOMAIN teardown :
              (/\ teardown[i] = "timer.Stop"
               /\ teardown[j] \in {"RemoveIcon", "Destroy", "frame.Destroy"})
              => i < j

\* C16: no exception leaves a parser call: whatever the command does (exit
\* code, timeout, executable that cannot be launched), the call ends by
\* returning a result.
C16_NoExceptionEscapes == pPc # "raised"

\* C17: once set_icons has run, every canonical profile name has an icon,
\* and the icon a handler passed to SetIcon is an icon too: the one of the
\* profile, or the one of 'balanced' for a name that has no entry.
C17_IconsNeverNull ==
    phase # "start" =>
        /\ \A k \in Canonical : iconState[k] # NoIcon
        /\ ev.setIcon =>
              /\ trayIcon # NoIcon
              /\ trayIcon = IF current_profile \in Canonical
                            THEN iconState[current_profile]
                            ELSE iconState[balanced]

\* a tick that reloaded the icons (some from files, some defaults) and then
\* showed the unknown profile 'a' with the icon of 'balanced'
C17_Witness ==
    /\ Tick /\ ev.reload /\ ev.setIcon
    /\ current_profile = <<"a">>
    /\ iconState[performance] = DefaultIcon
    /\ trayIcon.kind = "file"

C19_IconShownAfterInit ==
    phase = "running" => trayIcon # NoIcon

\* C20: if from some point on the daemon's profile stays p, the application
\* runs and its polls succeed, then from some point on current_profile is p
\* and the tooltip is 'Active Profile: ' followed by p.
C20_DisplayConverges ==
    \A p \in Canonical :
        <>[](daemon = p /\ phase = "running" /\ ev.ok)
            => <>[](current_profile = p /\ tooltip = TooltipPrefix \o p)

\* a poll that brought the display to the profile set from the menu
C20_Witness ==
    /\ menu.selected # 0
    /\ setCall.ok
    /\ daemon = setCall.name
    /\ Tick /\ ev.ok /\ ev.setIcon
    /\ ev.prevProfile # daemon
    /\ current_profile = daemon
    /\ tooltip = TooltipPrefix \o daemon

====
